---- MODULE Spec2Model ----
(***************************************************************************)
(* Model of calc.c: a command-line calculator made of a lexer (eat_token), *)
(* a shunting-yard transformer and an RPN evaluator, all inside main.      *)
(*                                                                         *)
(* The command-line argument is a sequence of one-character strings.       *)
(* pc is the place of main: "shunt" in the token loop, "drain" before the  *)
(* loop that empties the operator stack, "eval" in the evaluation loop,    *)
(* "exit0" after return 0, "exit1" after return 1 or exit(1) (msg holds    *)
(* the message on stderr), "abort" after a failed assert and "crash" after *)
(* a trapped out-of-bounds access.                                         *)
(* A double is modelled exactly while it is an integer of magnitude at     *)
(* most Exact; any other result (a quotient that is no integer, a division *)
(* by zero, an overflowing power, a transcendental function) is kept as    *)
(* the uninterpreted term of the operation and its operands, so two values *)
(* of the model are equal only if the C program computes the same double.  *)
(***************************************************************************)
EXTENDS Integers, Sequences, FiniteSets, TLC

VARIABLES input, cursor, token, cap, operators, output, arity, eval_stack, i, pc, msg

vars == <<input, cursor, token, cap, operators, output, arity, eval_stack, i, pc, msg>>

(***************************************************************************)
(* Bounds of the model.                                                    *)
(***************************************************************************)
\* largest magnitude the model computes exactly
Exact == 100000
\* longest input, in lexemes, of the exhaustive input family
MaxLen == 4
\* longest well-formed binary expression, in lexemes
MaxExprLen == 7
\* longest argument text, in lexemes, of the function-call family
MaxBody == 4
\* most arguments of a variadic call
MaxArgs == 17
\* largest capacity of the scaled-down stacks
MaxCap == 2
\* longest input, in lexemes, run against the scaled-down stacks
MaxCapLen == 3

(***************************************************************************)
(* Program constants.                                                      *)
(***************************************************************************)
StackCap == 256
FargsCap == 16
NameSize == 8

(***************************************************************************)
(* Numbers                                                                 *)
(***************************************************************************)
Num(n) == [k |-> "int", v |-> n, op |-> "", args |-> <<>>]

Term(o, as) == [k |-> "term", v |-> 0, op |-> o, args |-> as]

IsInt(a) == a.k = "int"

Abs(n) == IF n < 0 THEN -n ELSE n

InRange(n) == Abs(n) <= Exact

\* the double 0.0 of a zero-initialised Token
Zero == Num(0)

\* NAN
NaN == Term("nan", <<>>)

Add(a, b) ==
    IF IsInt(a) /\ IsInt(b) /\ InRange(a.v + b.v) THEN Num(a.v + b.v)
    ELSE Term("add", <<a, b>>)

Sub(a, b) ==
    IF IsInt(a) /\ IsInt(b) /\ InRange(a.v - b.v) THEN Num(a.v - b.v)
    ELSE Term("sub", <<a, b>>)

MulFits(x, y) == x = 0 \/ y = 0 \/ Abs(x) <= Exact \div Abs(y)

Mul(a, b) ==
    IF IsInt(a) /\ IsInt(b) /\ MulFits(a.v, b.v) THEN Num(a.v * b.v)
    ELSE Term("mul", <<a, b>>)

\* C division of doubles: exact when the quotient is an integer
Div(a, b) ==
    IF IsInt(a) /\ IsInt(b) /\ b.v # 0 /\ Abs(a.v) % Abs(b.v) = 0
    THEN LET q == Abs(a.v) \div Abs(b.v)
         IN  Num(IF (a.v < 0) = (b.v < 0) THEN q ELSE -q)
    ELSE Term("div", <<a, b>>)

\* fmod: the remainder has the sign of the dividend
Fmod(a, b) ==
    IF IsInt(a) /\ IsInt(b) /\ b.v # 0
    THEN LET r == Abs(a.v) % Abs(b.v)
         IN  Num(IF a.v < 0 THEN -r ELSE r)
    ELSE Term("fmod", <<a, b>>)

\* x^n for n >= 0 by repeated multiplication; -1 when it leaves the exact range
RECURSIVE IntPow(_, _)
IntPow(x, n) ==
    IF n = 0 THEN 1
    ELSE LET p == IntPow(x, n - 1)
         IN  IF p = -1 \/ ~MulFits(p, x) THEN -1 ELSE p * x

\* pow for integer operands with a non-negative exponent; other cases stay terms
Pow(a, b) ==
    IF IsInt(a) /\ IsInt(b) /\ b.v >= 0
    THEN IF Abs(a.v) <= 1
         THEN Num(IF b.v = 0 THEN 1
                  ELSE IF a.v = -1 /\ b.v % 2 = 0 THEN 1
                  ELSE a.v)
         ELSE IF b.v > 40 \/ IntPow(a.v, b.v) = -1 THEN Term("pow", <<a, b>>)
         ELSE Num(IntPow(a.v, b.v))
    ELSE Term("pow", <<a, b>>)

Neg(a) == IF IsInt(a) THEN Num(-a.v) ELSE Term("neg", <<a>>)

(***************************************************************************)
(* Operators                                                               *)
(***************************************************************************)
OperatorTable == <<
    [id |-> "OP_BINADD",  sym |-> "+", precedence |-> 1, lassoc |-> TRUE,  unary |-> FALSE],
    [id |-> "OP_BINSUB",  sym |-> "-", precedence |-> 1, lassoc |-> TRUE,  unary |-> FALSE],
    [id |-> "OP_BINMUL",  sym |-> "*", precedence |-> 2, lassoc |-> TRUE,  unary |-> FALSE],
    [id |-> "OP_BINDIV",  sym |-> "/", precedence |-> 2, lassoc |-> TRUE,  unary |-> FALSE],
    [id |-> "OP_BINREM",  sym |-> "%", precedence |-> 2, lassoc |-> TRUE,  unary |-> FALSE],
    [id |-> "OP_BINPOW",  sym |-> "^", precedence |-> 3, lassoc |-> FALSE, unary |-> FALSE],
    [id |-> "OP_UNPLUS",  sym |-> "+", precedence |-> 4, lassoc |-> FALSE, unary |-> TRUE],
    [id |-> "OP_UNMINUS", sym |-> "-", precedence |-> 4, lassoc |-> FALSE, unary |-> TRUE] >>

(***************************************************************************)
(* Functions                                                               *)
(***************************************************************************)
FunctionTable == <<
    [id |-> "FN_MAX",   name |-> <<"m","a","x">>,         arity |-> -1],
    [id |-> "FN_MIN",   name |-> <<"m","i","n">>,         arity |-> -1],
    [id |-> "FN_LOG10", name |-> <<"l","o","g","1","0">>, arity |-> 1],
    [id |-> "FN_LOG2",  name |-> <<"l","o","g","2">>,     arity |-> 1],
    [id |-> "FN_LN",    name |-> <<"l","n">>,             arity |-> 1],
    [id |-> "FN_SIN",   name |-> <<"s","i","n">>,         arity |-> 1],
    [id |-> "FN_ASIN",  name |-> <<"a","s","i","n">>,     arity |-> 1],
    [id |-> "FN_COS",   name |-> <<"c","o","s">>,         arity |-> 1],
    [id |-> "FN_ACOS",  name |-> <<"a","c","o","s">>,     arity |-> 1],
    [id |-> "FN_TAN",   name |-> <<"t","a","n">>,         arity |-> 1],
    [id |-> "FN_ATAN",  name |-> <<"a","t","a","n">>,     arity |-> 1],
    [id |-> "FN_CEIL",  name |-> <<"c","e","i","l">>,     arity |-> 1],
    [id |-> "FN_FLOOR", name |-> <<"f","l","o","o","r">>, arity |-> 1],
    [id |-> "FN_ROUND", name |-> <<"r","o","u","n","d">>, arity |-> 1],
    [id |-> "FN_SQRT",  name |-> <<"s","q","r","t">>,     arity |-> 1] >>

(***************************************************************************)
(* Tokens.  operator and function are indexes into the tables, 0 for the   *)
(* null pointer of a zero-initialised Token.                               *)
(***************************************************************************)
NullToken ==
    [type |-> "TK_NULL", number |-> Zero, operator |-> 0, function |-> 0, call_arity |-> 0]

NumberToken(x) == [NullToken EXCEPT !.type = "TK_NUMBER", !.number = x]

OperatorToken(o) == [NullToken EXCEPT !.type = "TK_OPERATOR", !.operator = o]

FunctionToken(f) == [NullToken EXCEPT !.type = "TK_FUNCTION", !.function = f]

LParenToken == [NullToken EXCEPT !.type = "TK_LPAREN"]

RParenToken == [NullToken EXCEPT !.type = "TK_RPAREN"]

CommaToken == [NullToken EXCEPT !.type = "TK_COMMA"]

(***************************************************************************)
(* Lexer                                                                   *)
(***************************************************************************)
isspace(c) == c \in {" ", "\t", "\n"}

Digits == <<"0", "1", "2", "3", "4", "5", "6", "7", "8", "9">>

isdigit(c) == \E d \in 1..10 : Digits[d] = c

DigitValue(c) == (CHOOSE d \in 1..10 : Digits[d] = c) - 1

\* the letters of the inputs of this model are lower-case
isalpha(c) ==
    c \in {"a", "b", "c", "d", "e", "f", "g", "h", "i", "j", "k", "l", "m",
           "n", "o", "p", "q", "r", "s", "t", "u", "v", "w", "x", "y", "z"}

isalnum(c) == isalpha(c) \/ isdigit(c)

\* the character at position at, "" for the terminating NUL
CharAt(text, at) == IF at <= Len(text) THEN text[at] ELSE ""

\* while (isspace(*at)) at++
RECURSIVE SkipSpace(_, _)
SkipSpace(text, at) ==
    IF isspace(CharAt(text, at)) THEN SkipSpace(text, at + 1) ELSE at

\* first position at or after at that holds no digit
RECURSIVE DigitsEnd(_, _)
DigitsEnd(text, at) ==
    IF isdigit(CharAt(text, at)) THEN DigitsEnd(text, at + 1) ELSE at

\* value of the decimal digits text[from..to]
RECURSIVE Decimal(_, _, _)
Decimal(text, from, to) ==
    IF to < from THEN Num(0)
    ELSE Add(Mul(Decimal(text, from, to - 1), Num(10)), Num(DigitValue(text[to])))

\* strtod(at, &end) on a literal that starts with a digit.  The inputs of
\* this model hold no '.', no exponent and no hexadecimal prefix, so the
\* literal is the maximal run of decimal digits.
strtod(text, at) ==
    LET end == DigitsEnd(text, at)
    IN  [number |-> Decimal(text, at, end - 1), end |-> end]

\* for (i = 0; isalnum(*at) && i < sizeof(name) - 1; i++) name[i] = *at++
RECURSIVE ScanName(_, _, _)
ScanName(text, at, n) ==
    IF isalnum(CharAt(text, at)) /\ n < NameSize - 1
    THEN ScanName(text, at + 1, n + 1)
    ELSE at

\* the last table entry whose name equals name, 0 when there is none
LookupFunction(name) ==
    LET hits == {f \in 1..Len(FunctionTable) : FunctionTable[f].name = name}
    IN  IF hits = {} THEN 0 ELSE CHOOSE f \in hits : \A g \in hits : g <= f

\* IsUnaryContext without the left parenthesis
IsUnaryContext_noparen(t) == t = "TK_NULL" \/ t = "TK_OPERATOR"

IsUnaryContext(t) == t = "TK_NULL" \/ t = "TK_OPERATOR" \/ t = "TK_LPAREN"

\* the first table entry with this symbol and this arity, 0 when there is none
LookupOperator(c, unary) ==
    LET hits == {o \in 1..Len(OperatorTable) :
                    OperatorTable[o].sym = c /\ OperatorTable[o].unary = unary}
    IN  IF hits = {} THEN 0 ELSE CHOOSE o \in hits : \A p \in hits : o <= p

\* eat_token(&last_tk, &str): status 1 with the token and the advanced
\* cursor, status 0 at the end of the input, status -1 on an error; the
\* last two leave *last_tk and *str as they were.
eat_token(last_tk, text, str) ==
    LET at == SkipSpace(text, str)
        c  == CharAt(text, at)
        got(tk, end) == [status |-> 1, last_tk |-> tk, str |-> end, msg |-> ""]
        fail(m) == [status |-> -1, last_tk |-> last_tk, str |-> str, msg |-> m]
    IN  IF c = "" THEN [status |-> 0, last_tk |-> last_tk, str |-> str, msg |-> ""]
        ELSE IF isdigit(c) THEN
            LET r == strtod(text, at) IN got(NumberToken(r.number), r.end)
        ELSE IF isalpha(c) THEN
            LET end == ScanName(text, at, 0)
                f   == LookupFunction(SubSeq(text, at, end - 1))
            IN  IF f = 0 THEN fail("undefined function") ELSE got(FunctionToken(f), end)
        ELSE IF c = "(" THEN got(LParenToken, at + 1)
        ELSE IF c = ")" THEN got(RParenToken, at + 1)
        ELSE IF c = "," THEN got(CommaToken, at + 1)
        ELSE
            LET op == LookupOperator(c, IsUnaryContext(last_tk.type))
            IN  IF op # 0 THEN got(OperatorToken(op), at + 1) ELSE fail("Invalid token")

(***************************************************************************)
(* Token stack and arity stack.  A stack is the sequence tokens[0..len-1]. *)
(***************************************************************************)
\* tk_push with the capacity test off by one
tk_push_late(stk, c, tk) ==
    IF Len(stk) > c THEN [ok |-> FALSE, tokens |-> stk]
    ELSE [ok |-> TRUE, tokens |-> Append(stk, tk)]

tk_push(stk, c, tk) ==
    IF Len(stk) >= c THEN [ok |-> FALSE, tokens |-> stk]
    ELSE [ok |-> TRUE, tokens |-> Append(stk, tk)]

tk_pop(stk) ==
    IF Len(stk) <= 0 THEN [ok |-> FALSE, tokens |-> stk, tk |-> NullToken]
    ELSE [ok |-> TRUE, tokens |-> SubSeq(stk, 1, Len(stk) - 1), tk |-> stk[Len(stk)]]

\* the top token; the null pointer is the token of type TK_NULL
tk_top(stk) == IF Len(stk) # 0 THEN stk[Len(stk)] ELSE NullToken

arity_push(data, c) ==
    IF Len(data) >= c THEN [ok |-> FALSE, data |-> data]
    ELSE [ok |-> TRUE, data |-> Append(data, 0)]

arity_has_arg(data) ==
    IF Len(data) > 0 /\ data[Len(data)] = 0 THEN [data EXCEPT ![Len(data)] = 1]
    ELSE data

\* How this build treats an access outside an array: it traps, or the
\* access strays into memory the program does not otherwise use.
OutOfBounds == {"trap", "stray"}

\* arity_inc does not check len: with len = 0 it increments data[-1]
arity_inc(data, ub) ==
    IF Len(data) > 0 THEN [ok |-> TRUE, data |-> [data EXCEPT ![Len(data)] = @ + 1]]
    ELSE [ok |-> ub = "stray", data |-> data]

arity_pop(data) ==
    IF Len(data) <= 0 THEN [ok |-> FALSE, data |-> data, result |-> 0]
    ELSE [ok |-> TRUE, data |-> SubSeq(data, 1, Len(data) - 1), result |-> data[Len(data)]]

(***************************************************************************)
(* Shunting-yard.  s is the program state a token handler works on:        *)
(* operators, output, arity and the capacities, with end = "" while the    *)
(* program runs, "exit1" after return 1 or exit(1) with its message,       *)
(* "crash" after a trapped access.                                         *)
(***************************************************************************)
Stop(s, how, m) == [s EXCEPT !.end = how, !.msg = m]

PushOutput(s, tk) ==
    LET r == tk_push(s.output, s.cap.output, tk)
    IN  IF s.end # "" THEN s
        ELSE IF r.ok THEN [s EXCEPT !.output = r.tokens]
        ELSE Stop(s, "exit1", "too many tokens")

PushOperators(s, tk) ==
    LET r == tk_push(s.operators, s.cap.operators, tk)
    IN  IF s.end # "" THEN s
        ELSE IF r.ok THEN [s EXCEPT !.operators = r.tokens]
        ELSE Stop(s, "exit1", "too many tokens")

\* tk_push(&output, tk_pop(&operators))
MoveTop(s) ==
    LET p == tk_pop(s.operators)
    IN  IF s.end # "" THEN s
        ELSE IF ~p.ok THEN Stop(s, "exit1", "pop on empty stack")
        ELSE PushOutput([s EXCEPT !.operators = p.tokens], p.tk)

\* ShouldMove with the strict comparison for every operator
ShouldMove_strict(op1, top) ==
    /\ top.type = "TK_OPERATOR"
    /\ OperatorTable[op1].precedence < OperatorTable[top.operator].precedence

\* whether the operator on top of the stack moves to the output before op1
ShouldMove(op1, top) ==
    /\ top.type = "TK_OPERATOR"
    /\ IF OperatorTable[op1].lassoc
       THEN OperatorTable[op1].precedence <= OperatorTable[top.operator].precedence
       ELSE OperatorTable[op1].precedence < OperatorTable[top.operator].precedence

RECURSIVE OperatorLoop(_, _)
OperatorLoop(s, op1) ==
    IF s.end = "" /\ ShouldMove(op1, tk_top(s.operators))
    THEN OperatorLoop(MoveTop(s), op1)
    ELSE s

OperatorCase(s, tk) ==
    IF OperatorTable[tk.operator].unary THEN PushOperators(s, tk)
    ELSE PushOperators(OperatorLoop(s, tk.operator), tk)

FunctionCase(s, tk) ==
    LET r == arity_push(s.arity, s.cap.arity)
    IN  IF r.ok THEN PushOperators([s EXCEPT !.arity = r.data], tk)
        ELSE Stop(s, "exit1", "arity stack overflow")

\* moves tokens to the output until a left parenthesis is on top
RECURSIVE UntilLParen(_, _)
UntilLParen(s, m) ==
    LET top == tk_top(s.operators)
    IN  IF s.end # "" THEN s
        ELSE IF top.type = "TK_NULL" THEN Stop(s, "exit1", m)
        ELSE IF top.type = "TK_LPAREN" THEN s
        ELSE UntilLParen(MoveTop(s), m)

\* after the loop of the right parenthesis: pop the '(' and emit the call
CloseCall(s) ==
    LET p   == tk_pop(s.operators)
        s1  == [s EXCEPT !.operators = p.tokens]
        top == tk_top(s1.operators)
        f   == tk_pop(s1.operators)
        a   == arity_pop(s1.arity)
    IN  IF top.type # "TK_FUNCTION" THEN s1
        ELSE IF ~a.ok THEN Stop([s1 EXCEPT !.operators = f.tokens], "exit1",
                                "pop on empty arity stack")
        ELSE PushOutput([s1 EXCEPT !.operators = f.tokens, !.arity = a.data],
                        [f.tk EXCEPT !.call_arity = a.result])

RParenCase(s) ==
    LET s1 == UntilLParen(s, "mismatched parens")
    IN  IF s1.end # "" THEN s1 ELSE CloseCall(s1)

CommaCase(s, ub) ==
    LET r == arity_inc(s.arity, ub)
    IN  IF ~r.ok THEN Stop(s, "crash", "")
        ELSE UntilLParen([s EXCEPT !.arity = r.data], "unexpected comma")

\* the body of the token loop for one token
Shunt(s, tk, ub) ==
    LET s1 == IF tk.type # "TK_RPAREN" /\ tk.type # "TK_LPAREN"
              THEN [s EXCEPT !.arity = arity_has_arg(s.arity)]
              ELSE s
    IN  CASE tk.type = "TK_NUMBER"   -> PushOutput(s1, tk)
          [] tk.type = "TK_OPERATOR" -> OperatorCase(s1, tk)
          [] tk.type = "TK_FUNCTION" -> FunctionCase(s1, tk)
          [] tk.type = "TK_LPAREN"   -> PushOperators(s1, tk)
          [] tk.type = "TK_RPAREN"   -> RParenCase(s1)
          [] tk.type = "TK_COMMA"    -> CommaCase(s1, ub)
          [] OTHER                   -> Stop(s1, "abort", "assert(0)")

\* the loop after the last token: empties the operator stack into the output
RECURSIVE Drain(_)
Drain(s) ==
    LET top == tk_top(s.operators)
    IN  IF s.end # "" \/ top.type = "TK_NULL" THEN s
        ELSE IF top.type = "TK_LPAREN" \/ top.type = "TK_RPAREN"
        THEN Stop(s, "exit1", "paren mismatch")
        ELSE Drain(MoveTop(s))

(***************************************************************************)
(* RPN evaluation.  e is the evaluator's state: the evaluation stack with  *)
(* its capacity, and end and msg as above ("abort" for a failed assert).   *)
(***************************************************************************)
EvalStop(e, how, m) == [e EXCEPT !.end = how, !.msg = m]

EvalPush(e, tk) ==
    LET r == tk_push(e.stack, e.cap, tk)
    IN  IF r.ok THEN [e EXCEPT !.stack = r.tokens]
        ELSE EvalStop(e, "exit1", "too many tokens")

\* the switch on tk.operator->id
ApplyOperator(id, lhs, rhs) ==
    CASE id = "OP_BINADD"  -> Add(lhs, rhs)
      [] id = "OP_BINSUB"  -> Sub(lhs, rhs)
      [] id = "OP_BINMUL"  -> Mul(lhs, rhs)
      [] id = "OP_BINDIV"  -> Div(lhs, rhs)
      [] id = "OP_BINREM"  -> Fmod(lhs, rhs)
      [] id = "OP_BINPOW"  -> Pow(lhs, rhs)
      [] id = "OP_UNPLUS"  -> rhs
      [] id = "OP_UNMINUS" -> Neg(rhs)

EvalOperator(e, tk) ==
    LET op == OperatorTable[tk.operator]
        r  == tk_pop(e.stack)
        l  == tk_pop(r.tokens)
        rhs == r.tk.number
        lhs == IF op.unary THEN NaN ELSE l.tk.number
        rest == IF op.unary THEN r.tokens ELSE l.tokens
    IN  IF ~r.ok THEN EvalStop(e, "exit1", "pop on empty stack")
        ELSE IF ~op.unary /\ ~l.ok
        THEN EvalStop([e EXCEPT !.stack = r.tokens], "exit1", "pop on empty stack")
        ELSE EvalPush([e EXCEPT !.stack = rest],
                      NumberToken(ApplyOperator(op.id, lhs, rhs)))

\* max = fargs[i] > max ? fargs[i] : max, for i = from .. call_arity - 1
RECURSIVE MaxLoop(_, _, _)
MaxLoop(fargs, from, max) ==
    IF from > Len(fargs) THEN max
    ELSE MaxLoop(fargs, from + 1, IF fargs[from].v > max.v THEN fargs[from] ELSE max)

\* min = fargs[i] < min ? fargs[i] : min, for i = from .. call_arity - 1
RECURSIVE MinLoop(_, _, _)
MinLoop(fargs, from, min) ==
    IF from > Len(fargs) THEN min
    ELSE MinLoop(fargs, from + 1, IF fargs[from].v < min.v THEN fargs[from] ELSE min)

\* the switch on fun->id; fargs[1] is the C program's fargs[0]
ApplyFunction(id, fargs) ==
    LET exact == \A n \in 1..Len(fargs) : IsInt(fargs[n])
    IN  CASE id = "FN_MAX" /\ exact -> MaxLoop(fargs, 2, fargs[1])
          [] id = "FN_MIN" /\ exact -> MinLoop(fargs, 2, fargs[1])
          [] id \in {"FN_CEIL", "FN_FLOOR", "FN_ROUND"} /\ exact -> fargs[1]
          [] OTHER -> Term(id, fargs)

\* the arity check of the evaluator: "" when the call passes
ArityError(fun, call_arity) ==
    IF fun.arity = -1
    THEN IF call_arity < 1 THEN "variadic function takes at least 1 argument" ELSE ""
    ELSE IF call_arity # fun.arity THEN "function takes arity arguments" ELSE ""

EvalFunction(e, tk, ub) ==
    LET fun == FunctionTable[tk.function]
        n   == tk.call_arity
        len == Len(e.stack)
        fargs == [a \in 1..n |-> e.stack[len - n + a].number]
    IN  IF ArityError(fun, n) # "" THEN EvalStop(e, "exit1", ArityError(fun, n))
        ELSE IF n > FargsCap /\ ub = "trap"
        THEN EvalStop(e, "abort", "assert(tk.call_arity <= countof(fargs))")
        ELSE IF len < n
        THEN EvalStop([e EXCEPT !.stack = <<>>], "exit1", "pop on empty stack")
        ELSE EvalPush([e EXCEPT !.stack = SubSeq(e.stack, 1, len - n)],
                      NumberToken(ApplyFunction(fun.id, fargs)))

\* the body of the evaluation loop for one token of the output
Eval(e, tk, ub) ==
    CASE tk.type = "TK_NUMBER"   -> EvalPush(e, tk)
      [] tk.type = "TK_OPERATOR" -> EvalOperator(e, tk)
      [] tk.type = "TK_FUNCTION" -> EvalFunction(e, tk, ub)
      [] OTHER                   -> EvalStop(e, "abort", "assert(0)")

(***************************************************************************)
(* Inputs.  A lexeme is a sequence of characters; an input is the          *)
(* concatenation of lexemes (argv[1]).                                     *)
(***************************************************************************)
RECURSIVE Flatten(_)
Flatten(ls) == IF ls = <<>> THEN <<>> ELSE Head(ls) \o Flatten(Tail(ls))

SeqsUpTo(S, n) == UNION {[1..k -> S] : k \in 0..n}

Max == <<"m", "a", "x">>

Min == <<"m", "i", "n">>

Sqrt == <<"s", "q", "r", "t">>

\* every input of at most MaxLen lexemes
Lexemes ==
    {<<"3">>, <<"4">>, <<"+">>, <<"-">>, <<"*">>, <<"(">>, <<")">>, <<",">>, <<" ">>, Max}

ShortInputs == {Flatten(ls) : ls \in SeqsUpTo(Lexemes, MaxLen)}

\* the well-formed expressions of exactly n lexemes made of number
\* literals, binary operators and parentheses
ExprNumbers == {<<"2">>, <<"3">>, <<"4">>}

ExprOperators == {<<"+">>, <<"-">>, <<"*">>, <<"/">>, <<"%">>, <<"^">>}

RECURSIVE ExprsOfLen(_)
ExprsOfLen(n) ==
    IF n < 1 \/ n % 2 = 0 THEN {}
    ELSE IF n = 1 THEN ExprNumbers
    ELSE {<<"(">> \o e \o <<")">> : e \in ExprsOfLen(n - 2)}
         \cup UNION {{a \o o \o b : a \in ExprsOfLen(k), o \in ExprOperators,
                                     b \in ExprsOfLen(n - 1 - k)} : k \in 1..(n - 2)}

ExprInputs == UNION {ExprsOfLen(n) : n \in 1..MaxExprLen}

\* f(body) for every body of at most MaxBody lexemes
BodyLexemes == {<<"2">>, <<",">>, <<"(">>, <<")">>, <<"-">>, Max}

CallInputs ==
    {f \o <<"(">> \o Flatten(ls) \o <<")">> :
        f \in {Max, Sqrt}, ls \in SeqsUpTo(BodyLexemes, MaxBody)}

\* f(5,...,5,d,5,...,5): n arguments, the p-th of them d
RECURSIVE ArgList(_, _, _)
ArgList(n, p, d) ==
    IF n = 0 THEN <<>>
    ELSE IF n = 1 THEN <<IF p = 1 THEN d ELSE "5">>
    ELSE ArgList(n - 1, p, d) \o <<",", IF p = n THEN d ELSE "5">>

VariadicInputs ==
    {f \o <<"(">> \o ArgList(n, p, d) \o <<")">> :
        f \in {Max, Min}, n \in 0..MaxArgs, p \in 1..MaxArgs, d \in {"1", "9"}}

\* inputs run against the scaled-down stacks
CapLexemes == {<<"2">>, <<"-">>, <<"(">>, <<")">>, Max}

CapInputs == {Flatten(ls) : ls \in SeqsUpTo(CapLexemes, MaxCapLen)}

\* countof(operators_data), countof(output_data), countof(arity_data)
Capacities == {[operators |-> StackCap, output |-> StackCap, arity |-> StackCap]}

\* the same stacks with fewer slots
SmallCapacities == [operators : 1..MaxCap, output : 1..MaxCap, arity : 1..MaxCap]

(***************************************************************************)
(* The program                                                             *)
(***************************************************************************)
InitWith(inputs, caps) ==
    /\ input \in inputs
    /\ cap \in caps
    /\ cursor = 1
    /\ token = NullToken
    /\ operators = <<>>
    /\ output = <<>>
    /\ arity = <<>>
    /\ eval_stack = <<>>
    /\ i = 0
    /\ pc = "shunt"
    /\ msg = ""

Init == InitWith(ShortInputs, Capacities)

InitExpr == InitWith(ExprInputs, Capacities)

InitCalls == InitWith(CallInputs, Capacities)

InitVariadic == InitWith(VariadicInputs, Capacities)

InitCap == InitWith(CapInputs, SmallCapacities)

\* one turn of while ((status = eat_token(&token, &cursor)) == 1) { ... },
\* or the end of that loop
TokenStep ==
    /\ pc = "shunt"
    /\ LET r == eat_token(token, input, cursor)
           s == [operators |-> operators, output |-> output, arity |-> arity,
                 cap |-> cap, end |-> "", msg |-> ""]
       IN  /\ token' = r.last_tk
           /\ cursor' = r.str
           /\ IF r.status = 1
              THEN \E ub \in OutOfBounds :
                      LET t == Shunt(s, r.last_tk, ub)
                      IN  /\ operators' = t.operators
                          /\ output' = t.output
                          /\ arity' = t.arity
                          /\ pc' = IF t.end = "" THEN "shunt" ELSE t.end
                          /\ msg' = t.msg
              ELSE /\ pc' = IF r.status = 0 THEN "drain" ELSE "exit1"
                   /\ msg' = r.msg
                   /\ UNCHANGED <<operators, output, arity>>
    /\ UNCHANGED <<input, cap, eval_stack, i>>

\* the loop that empties the operator stack, then the set-up of the evaluation
DrainStep ==
    /\ pc = "drain"
    /\ LET t == Drain([operators |-> operators, output |-> output, arity |-> arity,
                       cap |-> cap, end |-> "", msg |-> ""])
       IN  /\ operators' = t.operators
           /\ output' = t.output
           /\ pc' = IF t.end = "" THEN "eval" ELSE t.end
           /\ msg' = t.msg
    /\ eval_stack' = <<>>
    /\ i' = 0
    /\ UNCHANGED <<input, cursor, token, cap, arity>>

\* one turn of for (i = 0; i < output.len; i++) { ... }
EvalStep ==
    /\ pc = "eval"
    /\ i < Len(output)
    /\ \E ub \in OutOfBounds :
          LET e == Eval([stack |-> eval_stack, cap |-> cap.operators, end |-> "", msg |-> ""],
                        output[i + 1], ub)
          IN  /\ eval_stack' = e.stack
              /\ i' = IF e.end = "" THEN i + 1 ELSE i
              /\ pc' = IF e.end = "" THEN "eval" ELSE e.end
              /\ msg' = e.msg
    /\ UNCHANGED <<input, cursor, token, cap, operators, output, arity>>

\* the end of the evaluation loop: prints the evaluation stack and returns 0
PrintResult ==
    /\ pc = "eval"
    /\ i >= Len(output)
    /\ pc' = "exit0"
    /\ UNCHANGED <<input, cursor, token, cap, operators, output, arity, eval_stack, i, msg>>

Next == TokenStep \/ DrainStep \/ EvalStep \/ PrintResult

Spec == Init /\ [][Next]_vars

SpecExpr == InitExpr /\ [][Next]_vars

SpecCalls == InitCalls /\ [][Next]_vars

SpecVariadic == InitVariadic /\ [][Next]_vars

SpecCap == InitCap /\ [][Next]_vars

(***************************************************************************)
(* Reference semantics of the expressions of number literals, binary       *)
(* operators and parentheses, by recursive descent over the grammar        *)
(*   sum     ::= product { ("+" | "-") product }      grouped left to right *)
(*   product ::= power { ("*" | "/" | "%") power }    grouped left to right *)
(*   power   ::= primary [ "^" power ]                grouped right to left *)
(*   primary ::= digit | "(" sum ")"                                        *)
(* A parse is [ok, v, at]: the value and the position after the phrase.    *)
(***************************************************************************)
RefFail == [ok |-> FALSE, v |-> Zero, at |-> 0]

RefApply(c, l, r) ==
    CASE c = "+" -> Add(l, r)
      [] c = "-" -> Sub(l, r)
      [] c = "*" -> Mul(l, r)
      [] c = "/" -> Div(l, r)
      [] c = "%" -> Fmod(l, r)
      [] c = "^" -> Pow(l, r)

RECURSIVE RefSum(_, _), RefSumRest(_, _, _), RefProduct(_, _), RefProductRest(_, _, _),
          RefPower(_, _), RefPrimary(_, _)

RefPrimary(text, at) ==
    LET c == CharAt(text, at)
        r == RefSum(text, at + 1)
    IN  IF isdigit(c) THEN [ok |-> TRUE, v |-> Num(DigitValue(c)), at |-> at + 1]
        ELSE IF c = "(" /\ r.ok /\ CharAt(text, r.at) = ")" THEN [r EXCEPT !.at = r.at + 1]
        ELSE RefFail

RefPower(text, at) ==
    LET b == RefPrimary(text, at)
        e == RefPower(text, b.at + 1)
    IN  IF b.ok /\ CharAt(text, b.at) = "^"
        THEN IF e.ok THEN [e EXCEPT !.v = Pow(b.v, e.v)] ELSE RefFail
        ELSE b

RefProductRest(text, acc, at) ==
    LET c == CharAt(text, at)
        r == RefPower(text, at + 1)
    IN  IF c \in {"*", "/", "%"}
        THEN IF r.ok THEN RefProductRest(text, RefApply(c, acc, r.v), r.at) ELSE RefFail
        ELSE [ok |-> TRUE, v |-> acc, at |-> at]

RefProduct(text, at) ==
    LET l == RefPower(text, at)
    IN  IF l.ok THEN RefProductRest(text, l.v, l.at) ELSE RefFail

RefSumRest(text, acc, at) ==
    LET c == CharAt(text, at)
        r == RefProduct(text, at + 1)
    IN  IF c \in {"+", "-"}
        THEN IF r.ok THEN RefSumRest(text, RefApply(c, acc, r.v), r.at) ELSE RefFail
        ELSE [ok |-> TRUE, v |-> acc, at |-> at]

RefSum(text, at) ==
    LET l == RefProduct(text, at)
    IN  IF l.ok THEN RefSumRest(text, l.v, l.at) ELSE RefFail

WellFormed(text) == RefSum(text, 1).ok /\ RefSum(text, 1).at = Len(text) + 1

RefValue(text) == RefSum(text, 1).v

\* the run ended in an error or a trap
Failed == pc \in {"exit1", "crash", "abort"}

\* the run printed exactly the value x
Printed(x) == pc = "exit0" /\ eval_stack = <<NumberToken(x)>>

(***************************************************************************)
(* C1.  For every well-formed expression of number literals, binary        *)
(* operators and parentheses the pipeline does not fail, and the value it  *)
(* prints is the value of the expression grouped by precedence (^ above    *)
(* * / % above + -), left to right for + - * / %, right to left for ^,     *)
(* with a parenthesized group as a unit; the right operand is the value    *)
(* popped first (2+3*4 = 14, 2^3^2 = 512, 2-3-4 = -5, (2+3)*4 = 20).       *)
(***************************************************************************)
C1_Grouping ==
    /\ WellFormed(input)
    /\ ~Failed
    /\ pc = "exit0" => Printed(RefValue(input))
    /\ pc = "exit0" /\ input = <<"2", "+", "3", "*", "4">> => Printed(Num(14))
    /\ pc = "exit0" /\ input = <<"2", "^", "3", "^", "2">> => Printed(Num(512))
    /\ pc = "exit0" /\ input = <<"2", "-", "3", "-", "4">> => Printed(Num(-5))
    /\ pc = "exit0" /\ input = <<"(", "2", "+", "3", ")", "*", "4">> => Printed(Num(20))

C1_Witness == input = <<"2", "^", "3", "^", "2">> /\ Printed(Num(512))

(***************************************************************************)
(* C2.  At the end of the evaluation the run succeeds only if the value    *)
(* stack holds exactly one value; any other size (none, or two or more)    *)
(* is an error and not a successful result.                                *)
(***************************************************************************)
C2_ExactlyOneValue == pc = "exit0" => Len(eval_stack) = 1

\* this step lexed a token of type t and ran its handler
Consumed(t) == pc = "shunt" /\ cursor' # cursor /\ token'.type = t

\* the index of the topmost left parenthesis of a stack, 0 when it holds none
TopLParen(stk) ==
    LET at == {n \in 1..Len(stk) : stk[n].type = "TK_LPAREN"}
    IN  IF at = {} THEN 0 ELSE CHOOSE n \in at : \A m \in at : m <= n

\* the topmost left parenthesis opens the argument list of a function call
InCall(stk) == TopLParen(stk) > 1 /\ stk[TopLParen(stk) - 1].type = "TK_FUNCTION"

(***************************************************************************)
(* C3.  A comma that is not inside the argument list of a function call    *)
(* (no left parenthesis on the operator stack, or the nearest one is a     *)
(* grouping parenthesis not preceded by a function name) is rejected, the  *)
(* claim says with the unexpected-comma error: the token loop does not go  *)
(* on after such a comma.                                                  *)
(***************************************************************************)
C3_StrayCommaRejected ==
    [][Consumed("TK_COMMA") /\ ~InCall(operators) => pc' # "shunt"]_vars

\* the whole text lexes without an error
RECURSIVE LexesFrom(_, _, _)
LexesFrom(text, last, at) ==
    LET r == eat_token(last, text, at)
    IN  IF r.status = 1 THEN LexesFrom(text, r.last_tk, r.str) ELSE r.status = 0

LexesClean(text) == LexesFrom(text, NullToken, 1)

\* the nesting depth after text[at..]: -1 once a ")" has no "(" to close
RECURSIVE ParenDepth(_, _, _)
ParenDepth(text, at, depth) ==
    IF at > Len(text) THEN depth
    ELSE IF text[at] = "(" THEN ParenDepth(text, at + 1, depth + 1)
    ELSE IF text[at] = ")"
    THEN IF depth = 0 THEN -1 ELSE ParenDepth(text, at + 1, depth - 1)
    ELSE ParenDepth(text, at + 1, depth)

Unbalanced(text) == ParenDepth(text, 1, 0) # 0

MismatchReported == pc = "exit1" /\ msg \in {"mismatched parens", "paren mismatch"}

AtFunction == pc = "eval" /\ i < Len(output) /\ output[i + 1].type = "TK_FUNCTION"

\* call_arity is not acceptable for the declared arity
ArityMismatch(tk) ==
    IF FunctionTable[tk.function].arity = -1 THEN tk.call_arity < 1
    ELSE tk.call_arity # FunctionTable[tk.function].arity

(***************************************************************************)
(* C5.  At a function token the evaluator first compares call_arity with   *)
(* the declared arity: a mismatch ends the run in the arity error with     *)
(* nothing popped; in every other case the function is applied to exactly  *)
(* call_arity popped values.                                               *)
(***************************************************************************)
C5_ArityCheck ==
    [][AtFunction =>
          IF ArityMismatch(output[i + 1])
          THEN /\ pc' = "exit1"
               /\ msg' \in {"variadic function takes at least 1 argument",
                             "function takes arity arguments"}
               /\ eval_stack' = eval_stack
          ELSE /\ pc' = "eval"
               /\ Len(eval_stack') = Len(eval_stack) - output[i + 1].call_arity + 1]_vars

\* the character the lexer looks at after the white space
Lookahead == CharAt(input, SkipSpace(input, cursor))

\* the lexer is about to look a character up in the operator catalog
AtOperatorChar ==
    /\ pc = "shunt"
    /\ Lookahead \notin {"", "(", ")", ","}
    /\ ~isdigit(Lookahead) /\ ~isalpha(Lookahead)

\* the catalog entries for the character c with the arity unary
Catalog(c, unary) ==
    {o \in 1..Len(OperatorTable) : OperatorTable[o].sym = c /\ OperatorTable[o].unary = unary}

\* the previous token is absent, an operator or a left parenthesis
UnaryPosition == token.type \in {"TK_NULL", "TK_OPERATOR", "TK_LPAREN"}

(***************************************************************************)
(* C6.  eat_token takes an operator character as unary exactly when the    *)
(* previous token is absent, an operator or a left parenthesis, and as     *)
(* binary otherwise; when the catalog has no entry for the character with  *)
(* that arity the run ends in the invalid-token error with no token        *)
(* produced and the cursor and the look-back token unchanged.  So -3+4 = 1,*)
(* 3--4 = 7 and 3+-4 = -1.                                                 *)
(***************************************************************************)
C6_UnaryBinary ==
    /\ [][AtOperatorChar =>
             IF Catalog(Lookahead, UnaryPosition) # {}
             THEN /\ token'.type = "TK_OPERATOR"
                  /\ token'.operator \in Catalog(Lookahead, UnaryPosition)
                  /\ cursor' = SkipSpace(input, cursor) + 1
             ELSE /\ pc' = "exit1" /\ msg' = "Invalid token"
                  /\ token' = token /\ cursor' = cursor
                  /\ UNCHANGED <<operators, output, arity>>]_vars
    /\ [](pc = "exit0" /\ input = <<"-", "3", "+", "4">> => Printed(Num(1)))
    /\ [](pc = "exit0" /\ input = <<"3", "-", "-", "4">> => Printed(Num(7)))
    /\ [](pc = "exit0" /\ input = <<"3", "+", "-", "4">> => Printed(Num(-1)))
    /\ [](input \in {<<"-", "3", "+", "4">>, <<"3", "-", "-", "4">>, <<"3", "+", "-", "4">>}
            => ~Failed)

C6_Witness == input = <<"3", "-", "-", "4">> /\ Printed(Num(7))

\* the operands a token of the output takes from the value stack
Takes(tk) ==
    CASE tk.type = "TK_NUMBER"   -> 0
      [] tk.type = "TK_OPERATOR" -> IF OperatorTable[tk.operator].unary THEN 1 ELSE 2
      [] tk.type = "TK_FUNCTION" -> tk.call_arity
      [] OTHER                   -> 0

\* every token of out[at..] finds its operands, depth values being on the stack
RECURSIVE ValidPostfix(_, _, _)
ValidPostfix(out, at, depth) ==
    \/ at > Len(out)
    \/ /\ Takes(out[at]) <= depth
       /\ ValidPostfix(out, at + 1, depth - Takes(out[at]) + 1)

(***************************************************************************)
(* C7.  When the transformer finishes without error its output is a valid  *)
(* postfix program: every operator and function finds its operands on the  *)
(* value stack, so the evaluator's "pop on empty stack" never happens.     *)
(***************************************************************************)
C7_ValidPostfix ==
    /\ pc = "eval" => ValidPostfix(output, 1, 0)
    /\ msg # "pop on empty stack"

\* the position of the "(" that the ")" at position close matches
RECURSIVE MatchingOpen(_, _, _)
MatchingOpen(text, at, depth) ==
    IF at < 1 THEN 0
    ELSE IF text[at] = ")" THEN MatchingOpen(text, at - 1, depth + 1)
    ELSE IF text[at] = "("
    THEN IF depth = 0 THEN at ELSE MatchingOpen(text, at - 1, depth - 1)
    ELSE MatchingOpen(text, at - 1, depth)

\* the commas of text[at..to] outside any parentheses opened in it
RECURSIVE OwnCommas(_, _, _, _)
OwnCommas(text, at, to, depth) ==
    IF at > to THEN 0
    ELSE IF text[at] = "(" THEN OwnCommas(text, at + 1, to, depth + 1)
    ELSE IF text[at] = ")" THEN OwnCommas(text, at + 1, to, depth - 1)
    ELSE (IF text[at] = "," /\ depth = 0 THEN 1 ELSE 0) + OwnCommas(text, at + 1, to, depth)

\* the arity the counting rule gives the call whose ")" is at position close
RuleArity(text, close) ==
    LET open == MatchingOpen(text, close - 1, 0)
    IN  IF \A n \in (open + 1)..(close - 1) : isspace(text[n]) THEN 0
        ELSE 1 + OwnCommas(text, open + 1, close - 1, 0)

(***************************************************************************)
(* C8.  The call_arity of an emitted function call is 0 when nothing is    *)
(* between the call's parentheses and otherwise 1 plus the number of       *)
(* commas at the call's own nesting level: commas of nested calls and      *)
(* groups do not count, and an argument list of parentheses only counts    *)
(* as an argument.                                                         *)
(***************************************************************************)
C8_CallArity ==
    [][Consumed("TK_RPAREN") /\ InCall(operators) /\ pc' = "shunt"
          => /\ output' # <<>>
             /\ output'[Len(output')].type = "TK_FUNCTION"
             /\ output'[Len(output')].call_arity = RuleArity(input, cursor' - 1)]_vars

\* the values of the digits of a text
DigitValues(text) == {DigitValue(text[n]) : n \in {m \in 1..Len(text) : isdigit(text[m])}}

Greatest(S) == CHOOSE x \in S : \A y \in S : y <= x

Least(S) == CHOOSE x \in S : \A y \in S : x <= y

\* the value of a call max(d,...,d) or min(d,...,d) of one-digit arguments
VariadicValue(text) ==
    IF SubSeq(text, 1, 3) = Max THEN Num(Greatest(DigitValues(text)))
    ELSE Num(Least(DigitValues(text)))

(***************************************************************************)
(* C9.  A call of max or min with n >= 1 arguments evaluates to the        *)
(* greatest (least) of all n arguments, and the evaluator's assertion      *)
(* call_arity <= countof(fargs) holds whenever it is evaluated.            *)
(***************************************************************************)
C9_Variadic ==
    /\ AtFunction /\ ~ArityMismatch(output[i + 1]) => output[i + 1].call_arity <= FargsCap
    /\ DigitValues(input) # {} => (pc = "exit0" => Printed(VariadicValue(input)))
    /\ DigitValues(input) # {} => ~Failed

LensInBounds ==
    /\ Len(operators) <= cap.operators
    /\ Len(output) <= cap.output
    /\ Len(arity) <= cap.arity
    /\ Len(eval_stack) <= cap.operators

\* this step ended the run in the error m
Exceeded(m) == pc' = "exit1" /\ msg' = m

(***************************************************************************)
(* C10.  The operator stack, the output, the arity stack and the           *)
(* evaluation stack always hold at most cap entries; a push onto a full    *)
(* stack writes nothing and ends the run in the capacity error ("too many  *)
(* tokens", "arity stack overflow"), never in a result.                    *)
(***************************************************************************)
C10_Capacity ==
    /\ [](LensInBounds)
    /\ [](msg \in {"too many tokens", "arity stack overflow"} => pc = "exit1")
    /\ [][/\ Consumed("TK_NUMBER") /\ Len(output) = cap.output
             => Exceeded("too many tokens") /\ output' = output
          /\ Consumed("TK_LPAREN") /\ Len(operators) = cap.operators
             => Exceeded("too many tokens") /\ operators' = operators
          /\ Consumed("TK_FUNCTION") /\ Len(arity) = cap.arity
             => /\ Exceeded("arity stack overflow")
                /\ Len(arity') = Len(arity) /\ operators' = operators
          /\ Consumed("TK_FUNCTION") /\ Len(arity) < cap.arity
                                     /\ Len(operators) = cap.operators
             => Exceeded("too many tokens") /\ operators' = operators
          /\ pc = "eval" /\ i < Len(output) /\ output[i + 1].type = "TK_NUMBER"
                         /\ Len(eval_stack) = cap.operators
             => Exceeded("too many tokens") /\ eval_stack' = eval_stack]_vars

C10_Witness ==
    /\ pc = "exit1" /\ msg = "too many tokens"
    /\ token.type = "TK_NUMBER" /\ Len(output) = cap.output

\* the function tokens waiting on a stack
FunctionsOn(stk) == {n \in 1..Len(stk) : stk[n].type = "TK_FUNCTION"}

\* the arity stack holds at least one tracker for each function token that
\* waits on the operator stack
TrackersCoverFunctions == Len(arity) >= Cardinality(FunctionsOn(operators))

\* the right parenthesis of this step closes a function call: arity_pop runs
\* once the operators above the left parenthesis have moved to the output
PopsOnExisting == Consumed("TK_RPAREN") /\ InCall(operators) => Len(arity) > 0

\* the comma of this step runs arity_inc, on the arity stack as it was
IncsOnExisting == Consumed("TK_COMMA") => Len(arity) > 0

(***************************************************************************)
(* C11.  Every access to the arity stack made for a token is to an         *)
(* existing entry: the arity stack holds at least as many trackers as      *)
(* there are function tokens on the operator stack, it is non-empty when a *)
(* right parenthesis closes a function call (arity_pop), and it is         *)
(* non-empty when a comma increments the innermost tracker (arity_inc).    *)
(***************************************************************************)
C11_ArityAccess ==
    /\ [](TrackersCoverFunctions)
    /\ [][PopsOnExisting]_vars
    /\ [][IncsOnExisting]_vars

====
